---- MODULE Spec2Model ----
(***************************************************************************)
(* Model of the authentication core of the FastAPI backend:                *)
(* app/api/auth.py (the endpoints), app/models/user.py (the users table),  *)
(* app/core/security.py (session tokens), app/config/auth.py (provider     *)
(* policy), app/core/database.py (one database session per request),       *)
(* app/core/apple_auth.py (the Apple ID token verifier and its key cache).  *)
(*                                                                         *)
(* Every request runs in its own database session.  A handler that writes  *)
(* is modelled in the steps its awaits cut it into: the SELECTs with the   *)
(* checks that follow them, then the flush/commit that applies the writes  *)
(* under the table's UNIQUE constraints.  Spec runs one request at a time  *)
(* (sequential histories); SpecConc lets two requests interleave.          *)
(* SpecToken mints and verifies session tokens on their own; SpecApple     *)
(* runs concurrent calls of the Apple verifier; SpecLimiter runs the       *)
(* requests of several clients through the rate limiting middleware.       *)
(***************************************************************************)
EXTENDS Integers, Sequences, FiniteSets, TLC

VARIABLES users, cfg, now, nextToken, nreq, pc, req, loc, resp, mlog, slog, minted, verdict, settings, verifier, call, limiter

\* the session tokens minted and verified on their own (SpecToken)
tokenVars == <<minted, verdict>>

\* app/core/apple_auth.py: the settings it reads, the verifier instance and
\* the calls in progress (SpecApple)
appleVars == <<settings, verifier, call>>

\* app/core/security_config.py: the rate limiting middleware and the
\* requests that have arrived (SpecLimiter)
limiterVars == <<limiter>>

vars == <<users, cfg, now, nextToken, nreq, pc, req, loc, resp, mlog, slog,
          minted, verdict, settings, verifier, call, limiter>>

(***************************************************************************)
(* Bounds of the model.                                                    *)
(***************************************************************************)
MaxRequests == 2
MaxTime == 2
MaxTokens == 2
MaxUsers == 3
MaxArrivals == 4

Procs == {1, 2}
SeqProcs == {1}

Emails == {"a@x", "b@x"}
Passwords == {"pw1", "pw2"}
Names == {"NULL", "Ann"}
Pictures == {"NULL"}
GoogleSubs == {"g1", "g2"}
AppleSubs == {"s1"}
AssertionFailures == {"signature", "audience", "expired", "issuer"}
KeyFetchFailures == {"keys_unreachable", "keys_unparsable"}
GoogleCauses == {"ok"} \cup AssertionFailures \cup KeyFetchFailures
AppleCauses == {"ok", "keys_unreachable"}

(***************************************************************************)
(* Lifetimes, in clock ticks of the model.  The source gives them in       *)
(* minutes and days; the model keeps their order                           *)
(* (magic link <= access < refresh).                                       *)
(***************************************************************************)
token_expire_minutes == 1
access_token_expire_minutes == 1
refresh_token_expire_days == 2

HTTP_200_OK == 200
HTTP_400_BAD_REQUEST == 400
HTTP_401_UNAUTHORIZED == 401
HTTP_403_FORBIDDEN == 403
HTTP_404_NOT_FOUND == 404
HTTP_409_CONFLICT == 409
HTTP_429_TOO_MANY_REQUESTS == 429
HTTP_500_INTERNAL == 500
HTTP_503_SERVICE_UNAVAILABLE == 503

(***************************************************************************)
(* NULL column values.  Tokens are the integers 1, 2, ... in the order     *)
(* secrets.token_urlsafe produces them; user ids are the positions in      *)
(* users, in the order uuid.uuid4 produces them.                           *)
(***************************************************************************)
NoToken == 0
BadToken == 0 - 1
NoExpiry == 0 - 1
NoPassword == <<>>
NoUser == 0

\* app/core/security.py: get_password_hash / verify_password
get_password_hash(password) == <<"bcrypt", password>>

verify_password(plain_password, hashed_password) ==
    hashed_password = get_password_hash(plain_password)

\* app/models/user.py: a row of the users table with the column defaults
User(email, full_name, avatar_url, is_active, is_verified, google_id, apple_id, hashed_password, token, expires) ==
    [email |-> email, full_name |-> full_name, avatar_url |-> avatar_url,
     is_active |-> is_active, is_verified |-> is_verified,
     google_id |-> google_id, apple_id |-> apple_id,
     hashed_password |-> hashed_password,
     email_verification_token |-> token,
     email_verification_expires |-> expires]

is_active_default == TRUE

Ids == 1..Len(users)

\* select(User).where(User.<column> == value) over a table; NULL never
\* matches
SelectIn(store, column, value) ==
    {u \in 1..Len(store) : store[u][column] = value}

SelectBy(column, value) == SelectIn(users, column, value)

\* result.scalar_one_or_none(): the row, none, or MultipleResultsFound
MultipleResults == 0 - 1

scalar_one_or_none(rows) ==
    IF rows = {} THEN NoUser
    ELSE IF Cardinality(rows) = 1 THEN CHOOSE u \in rows : TRUE
    ELSE MultipleResults


(***************************************************************************)
(* app/config/auth.py: the provider policy, read once at import.           *)
(***************************************************************************)
AuthConfig(email_password, allow_registration, magic_link, allow_new_users, google, apple) ==
    [email_password |-> email_password,
     allow_registration |-> allow_registration,
     magic_link |-> magic_link, allow_new_users |-> allow_new_users,
     google |-> google, apple |-> apple]

\* a policy check that lets every method through
is_provider_enabled_Always(provider) == TRUE

is_provider_enabled(provider) == cfg[provider]

\* the policies the model starts from: everything on, or some switches off
Configs ==
    {AuthConfig(TRUE, TRUE, TRUE, TRUE, TRUE, TRUE),
     AuthConfig(TRUE, TRUE, TRUE, FALSE, TRUE, TRUE),
     AuthConfig(FALSE, TRUE, TRUE, TRUE, FALSE, TRUE),
     AuthConfig(TRUE, FALSE, FALSE, TRUE, TRUE, FALSE)}

(***************************************************************************)
(* Rows the users table may hold when the service starts, with the number  *)
(* of magic-link tokens generated so far and the policy switches under     *)
(* which the service writes such a row: no row; a registered account with  *)
(* a linked Google subject that was deactivated; an active registered      *)
(* account; an account that request_magic_link created at time 0 and that  *)
(* still holds its token; an account that holds an Apple subject and a     *)
(* display name, stored as tests/integration/test_auth_flow.py stores it.  *)
(* The policy is read once, at import, so a row is there only under a      *)
(* policy that lets the service write it.                                  *)
(***************************************************************************)
SeedStores ==
    {[users |-> <<>>, tokens |-> 0, needs |-> {}],
     [users |-> <<User("a@x", "NULL", "NULL", FALSE, FALSE, "g1", "NULL",
                       get_password_hash("pw1"), NoToken, NoExpiry)>>,
      tokens |-> 0,
      needs |-> {"email_password", "allow_registration", "google"}],
     [users |-> <<User("a@x", "NULL", "NULL", TRUE, FALSE, "NULL", "NULL",
                       get_password_hash("pw1"), NoToken, NoExpiry)>>,
      tokens |-> 0, needs |-> {"email_password", "allow_registration"}],
     [users |-> <<User("a@x", "NULL", "NULL", is_active_default, FALSE,
                       "NULL", "NULL", NoPassword, 1, token_expire_minutes)>>,
      tokens |-> 1, needs |-> {"magic_link", "allow_new_users"}],
     [users |-> <<User("a@x", "Ann", "NULL", is_active_default, FALSE,
                       "NULL", "s1", NoPassword, NoToken, NoExpiry)>>,
      tokens |-> 0, needs |-> {"apple"}]}

(***************************************************************************)
(* Session tokens (app/core/security.py).  The payload is {sub, exp}; sig  *)
(* tells whether the signature verifies under settings.secret_key.  kind   *)
(* is no claim of the payload: it records which function minted the token. *)
(***************************************************************************)
NoJwt == [sub |-> NoUser, exp |-> 0, sig |-> "none", kind |-> "none"]

\* Optional[timedelta]: None, or a lifetime in ticks
None == <<>>

Some(delta) == <<delta>>

\* line 33, `if expires_delta:`; timedelta(0) is falsy
Truthy(expires_delta) == expires_delta # None /\ expires_delta[1] # 0

create_access_token(sub, expires_delta) ==
    [sub |-> sub,
     exp |-> IF Truthy(expires_delta)
             THEN now + expires_delta[1]
             ELSE now + access_token_expire_minutes,
     sig |-> "ok", kind |-> "access"]

create_refresh_token(sub) ==
    [sub |-> sub, exp |-> now + refresh_token_expire_days, sig |-> "ok",
     kind |-> "refresh"]

\* a decoder that does not look at the exp claim
verify_token_NoExpiry(token) == token.sig = "ok"

\* jwt.decode: the signature verifies and the exp claim has not passed
verify_token(token) == token.sig = "ok" /\ ~(token.exp < now)

\* the moments at which the tokens a client holds at the start were minted
IssueTimes == {0 - 1, 0}

\* the strings a client can present to /refresh: the access and refresh
\* tokens it was given earlier, or a token signed with another key
Jwts ==
    {[sub |-> s, exp |-> t + access_token_expire_minutes, sig |-> "ok",
      kind |-> "access"] : s \in 0..2, t \in IssueTimes}
    \cup {[sub |-> s, exp |-> t + refresh_token_expire_days, sig |-> "ok",
            kind |-> "refresh"] : s \in 0..2, t \in IssueTimes}
    \cup {[sub |-> 1, exp |-> refresh_token_expire_days, sig |-> "bad",
            kind |-> "refresh"]}

(***************************************************************************)
(* Requests and responses.                                                 *)
(***************************************************************************)
NoReq ==
    [op |-> "none", email |-> "NULL", password |-> "NULL",
     full_name |-> "NULL", picture |-> "NULL", sub |-> "NULL",
     cause |-> "NULL", token |-> NoToken, jwt |-> NoJwt]

NoLoc == [seq |-> 0, uid |-> NoUser, mode |-> "none", token |-> NoToken,
          expires |-> NoExpiry]

\* what a handler holds between its steps: the row it selected, what it
\* will write, the magic-link token and expiry it generated
Local(uid, mode, token, expires) ==
    [seq |-> nreq + 1, uid |-> uid, mode |-> mode, token |-> token,
     expires |-> expires]

NoResp == [seq |-> 0, req |-> NoReq, status |-> 0, detail |-> "none",
           access |-> NoJwt, refresh |-> NoJwt]

\* raise HTTPException(status_code, detail)
HTTPException(r, status, detail) ==
    [seq |-> 0, req |-> r, status |-> status, detail |-> detail,
     access |-> NoJwt, refresh |-> NoJwt]

\* TokenResponse(access_token, refresh_token, expires_in)
TokenResponse(r, uid) ==
    [seq |-> 0, req |-> r, status |-> HTTP_200_OK, detail |-> "tokens",
     access |-> create_access_token(uid, None),
     refresh |-> create_refresh_token(uid)]

\* a 200 response that carries no tokens (UserSchema, MessageResponse)
PlainResponse(r, detail) ==
    [seq |-> 0, req |-> r, status |-> HTTP_200_OK, detail |-> detail,
     access |-> NoJwt, refresh |-> NoJwt]

\* the unhandled-exception handler of app/core/logging_config.py
InternalError(r, detail) ==
    [seq |-> 0, req |-> r, status |-> HTTP_500_INTERNAL, detail |-> detail,
     access |-> NoJwt, refresh |-> NoJwt]

NoLog == [exp |-> NoExpiry, tries |-> 0, oks |-> 0]

\* history of the session: the tokens that /refresh accepted, in order, and
\* the number of /logout calls answered
NoSession == [refreshed |-> <<>>, logouts |-> 0]

LogSession(response) ==
    IF response.req.op = "refresh_token" /\ response.status = HTTP_200_OK
    THEN [slog EXCEPT !.refreshed = Append(@, response.req.jwt)]
    ELSE IF response.req.op = "logout"
    THEN [slog EXCEPT !.logouts = IF @ < 1 THEN @ + 1 ELSE @]
    ELSE slog

\* no token minted on its own, none verified
NoMint == [sub |-> NoUser, delta |-> None, at |-> 0, jwt |-> NoJwt]

NoVerdict == [at |-> 0, jwt |-> NoJwt, status |-> 0, sub |-> NoUser]

StartToken == minted = NoMint /\ verdict = NoVerdict

\* app/core/config.py lines 39-40: settings.environment, settings.debug
Settings(environment, debug) == [environment |-> environment, debug |-> debug]

\* AppleJWTVerifier.__init__: nothing cached
AppleJWTVerifier == [cached_keys |-> "NULL", cache_expiry |-> 0]

NoCall ==
    [op |-> "none", pc |-> "idle", current_time |-> 0, token |-> "NULL",
     path |-> "none", decoded |-> FALSE, outcome |-> "none", status |-> 0]

StartApple ==
    /\ settings = Settings("development", TRUE)
    /\ verifier = AppleJWTVerifier
    /\ call = [p \in Procs |-> NoCall]

\* __init__ (security_config.py:58-62): self.clients = {}; arrivals is the
\* history of the requests that reached the application
RateLimitingMiddleware == [clients |-> <<>>, arrivals |-> <<>>]

StartLimiter == limiter = RateLimitingMiddleware

Init ==
    /\ cfg \in Configs
    /\ \E seed \in SeedStores :
          /\ \A switch \in seed.needs : cfg[switch]
          /\ users = seed.users
          /\ nextToken = seed.tokens + 1
          /\ mlog = [t \in 1..MaxTokens |->
                       IF t <= seed.tokens
                       THEN [NoLog EXCEPT !.exp = token_expire_minutes]
                       ELSE NoLog]
    /\ now = 0
    /\ nreq = 0
    /\ pc = [p \in Procs |-> "idle"]
    /\ req = [p \in Procs |-> NoReq]
    /\ loc = [p \in Procs |-> NoLoc]
    /\ resp = [p \in Procs |-> NoResp]
    /\ slog = NoSession
    /\ StartToken
    /\ StartApple
    /\ StartLimiter

CanStart(p) == pc[p] = "idle" /\ nreq < MaxRequests

\* the request returns in the step that receives it
Finish(p, response) ==
    /\ resp' = [resp EXCEPT ![p] = [response EXCEPT !.seq = nreq + 1]]
    /\ nreq' = nreq + 1
    /\ slog' = LogSession(response)
    /\ UNCHANGED <<pc, req, loc, tokenVars, appleVars, limiterVars>>

\* the request goes on to a further step
Continue(p, r, state, l) ==
    /\ pc' = [pc EXCEPT ![p] = state]
    /\ req' = [req EXCEPT ![p] = r]
    /\ loc' = [loc EXCEPT ![p] = l]
    /\ nreq' = nreq + 1
    /\ UNCHANGED <<resp, slog, tokenVars, appleVars, limiterVars>>

\* the request returns from a later step
Return(p, response) ==
    /\ resp' = [resp EXCEPT ![p] = [response EXCEPT !.seq = loc[p].seq]]
    /\ pc' = [pc EXCEPT ![p] = "idle"]
    /\ req' = [req EXCEPT ![p] = NoReq]
    /\ loc' = [loc EXCEPT ![p] = NoLoc]
    /\ UNCHANGED <<nreq, slog, tokenVars, appleVars, limiterVars>>

Tick ==
    /\ now < MaxTime
    /\ now' = now + 1
    /\ UNCHANGED <<users, cfg, nextToken, nreq, pc, req, loc, resp, mlog, slog,
                   tokenVars, appleVars, limiterVars>>

(***************************************************************************)
(* POST /login/email                                                       *)
(***************************************************************************)
LoginOutcome_NoActiveGate(r) ==
    IF ~is_provider_enabled("email_password")
    THEN HTTPException(r, HTTP_403_FORBIDDEN,
                       "Email/password authentication is disabled")
    ELSE LET u == scalar_one_or_none(SelectBy("email", r.email)) IN
         IF u = NoUser \/ users[u].hashed_password = NoPassword
         THEN HTTPException(r, HTTP_401_UNAUTHORIZED,
                            "Invalid email or password")
         ELSE IF ~verify_password(r.password, users[u].hashed_password)
         THEN HTTPException(r, HTTP_401_UNAUTHORIZED,
                            "Invalid email or password")
         ELSE TokenResponse(r, u)

\* the same handler with the password check left out
LoginOutcome_NoPasswordCheck(r) ==
    IF ~is_provider_enabled("email_password")
    THEN HTTPException(r, HTTP_403_FORBIDDEN,
                       "Email/password authentication is disabled")
    ELSE LET u == scalar_one_or_none(SelectBy("email", r.email)) IN
         IF u = NoUser \/ users[u].hashed_password = NoPassword
         THEN HTTPException(r, HTTP_401_UNAUTHORIZED,
                            "Invalid email or password")
         ELSE IF ~users[u].is_active
         THEN HTTPException(r, HTTP_401_UNAUTHORIZED, "Account is disabled")
         ELSE TokenResponse(r, u)

\* the same handler with a message of its own for a wrong password
LoginOutcome_Disclosing(r) ==
    IF ~is_provider_enabled("email_password")
    THEN HTTPException(r, HTTP_403_FORBIDDEN,
                       "Email/password authentication is disabled")
    ELSE LET u == scalar_one_or_none(SelectBy("email", r.email)) IN
         IF u = NoUser \/ users[u].hashed_password = NoPassword
         THEN HTTPException(r, HTTP_401_UNAUTHORIZED,
                            "Invalid email or password")
         ELSE IF ~verify_password(r.password, users[u].hashed_password)
         THEN HTTPException(r, HTTP_401_UNAUTHORIZED, "Incorrect password")
         ELSE IF ~users[u].is_active
         THEN HTTPException(r, HTTP_401_UNAUTHORIZED, "Account is disabled")
         ELSE TokenResponse(r, u)

\* lines 77-128 over the users table `store`
LoginOutcomeIn(store, r) ==
    IF ~is_provider_enabled("email_password")
    THEN HTTPException(r, HTTP_403_FORBIDDEN,
                       "Email/password authentication is disabled")
    ELSE LET u == scalar_one_or_none(SelectIn(store, "email", r.email)) IN
         IF u = NoUser \/ store[u].hashed_password = NoPassword
         THEN HTTPException(r, HTTP_401_UNAUTHORIZED,
                            "Invalid email or password")
         ELSE IF ~verify_password(r.password, store[u].hashed_password)
         THEN HTTPException(r, HTTP_401_UNAUTHORIZED,
                            "Invalid email or password")
         ELSE IF ~store[u].is_active
         THEN HTTPException(r, HTTP_401_UNAUTHORIZED, "Account is disabled")
         ELSE TokenResponse(r, u)

LoginOutcome(r) == LoginOutcomeIn(users, r)

login_email(p) ==
    /\ CanStart(p)
    /\ \E email \in Emails, password \in Passwords :
          Finish(p, LoginOutcome([NoReq EXCEPT !.op = "login_email",
                                               !.email = email,
                                               !.password = password]))
    /\ UNCHANGED <<users, cfg, now, nextToken, mlog>>

(***************************************************************************)
(* POST /refresh.  Every failure inside the try block, the HTTPExceptions  *)
(* it raises itself included, leaves as 401 "Invalid refresh token".       *)
(***************************************************************************)
\* a refresh that accepts each refresh token once
RefreshOutcome_SingleUse(r) ==
    IF \E i \in 1..Len(slog.refreshed) : slog.refreshed[i] = r.jwt
    THEN HTTPException(r, HTTP_401_UNAUTHORIZED, "Invalid refresh token")
    ELSE IF ~verify_token(r.jwt)
    THEN HTTPException(r, HTTP_401_UNAUTHORIZED, "Invalid refresh token")
    ELSE IF r.jwt.sub = NoUser
    THEN HTTPException(r, HTTP_401_UNAUTHORIZED, "Invalid refresh token")
    ELSE IF r.jwt.sub \notin Ids \/ ~users[r.jwt.sub].is_active
    THEN HTTPException(r, HTTP_401_UNAUTHORIZED, "Invalid refresh token")
    ELSE TokenResponse(r, r.jwt.sub)

RefreshOutcome(r) ==
    IF ~verify_token(r.jwt)
    THEN HTTPException(r, HTTP_401_UNAUTHORIZED, "Invalid refresh token")
    ELSE IF r.jwt.sub = NoUser
    THEN HTTPException(r, HTTP_401_UNAUTHORIZED, "Invalid refresh token")
    ELSE IF r.jwt.sub \notin Ids \/ ~users[r.jwt.sub].is_active
    THEN HTTPException(r, HTTP_401_UNAUTHORIZED, "Invalid refresh token")
    ELSE TokenResponse(r, r.jwt.sub)

refresh_token(p) ==
    /\ CanStart(p)
    /\ \E jwt \in Jwts :
          Finish(p, RefreshOutcome([NoReq EXCEPT !.op = "refresh_token",
                                                 !.jwt = jwt]))
    /\ UNCHANGED <<users, cfg, now, nextToken, mlog>>

(***************************************************************************)
(* POST /logout: the cookies are cleared in the response; nothing is       *)
(* stored that a later verify_token would read.                            *)
(***************************************************************************)
logout(p) ==
    /\ CanStart(p)
    /\ Finish(p, PlainResponse([NoReq EXCEPT !.op = "logout"],
                               "Successfully logged out"))
    /\ UNCHANGED <<users, cfg, now, nextToken, mlog>>


(***************************************************************************)
(* The UNIQUE constraints of the users table (email, google_id,            *)
(* apple_id), checked when a flush inserts or updates the row: another     *)
(* row already holds the value.  u is the row written, NoUser on INSERT.   *)
(***************************************************************************)
UniqueViolation_Unchecked(u, row) == FALSE

UniqueViolation(u, row) ==
    \E v \in Ids \ {u} :
        \/ users[v].email = row.email
        \/ row.google_id # "NULL" /\ users[v].google_id = row.google_id
        \/ row.apple_id # "NULL" /\ users[v].apple_id = row.apple_id

\* session.add(row); await session.commit()
Insert(row) == users' = Append(users, row)

\* UPDATE users SET ... WHERE id = uid, from the attributes the handler set
Update(uid, row) == users' = [users EXCEPT ![uid] = row]

(***************************************************************************)
(* POST /register/email                                                    *)
(***************************************************************************)
register_email(p) ==
    /\ CanStart(p)
    /\ \E email \in Emails, password \in Passwords, full_name \in Names :
          LET r == [NoReq EXCEPT !.op = "register_email", !.email = email,
                                 !.password = password,
                                 !.full_name = full_name] IN
          IF ~is_provider_enabled("email_password")
          THEN Finish(p, HTTPException(r, HTTP_403_FORBIDDEN,
                         "Email/password authentication is disabled"))
          ELSE IF ~cfg.allow_registration
          THEN Finish(p, HTTPException(r, HTTP_403_FORBIDDEN,
                         "Email registration is disabled"))
          ELSE IF scalar_one_or_none(SelectBy("email", email)) # NoUser
          THEN Finish(p, HTTPException(r, HTTP_400_BAD_REQUEST,
                         "Email already registered"))
          ELSE Continue(p, r, "commit",
                        Local(NoUser, "insert", NoToken, NoExpiry))
    /\ UNCHANGED <<users, cfg, now, nextToken, mlog>>

register_commit(p) ==
    /\ pc[p] = "commit" /\ req[p].op = "register_email"
    /\ Len(users) < MaxUsers
    /\ LET row == User(req[p].email, req[p].full_name, "NULL",
                       is_active_default, FALSE, "NULL", "NULL",
                       get_password_hash(req[p].password),
                       NoToken, NoExpiry) IN
       IF UniqueViolation(NoUser, row)
       THEN /\ Return(p, InternalError(req[p], "IntegrityError"))
            /\ UNCHANGED users
       ELSE /\ Insert(row)
            /\ Return(p, PlainResponse(req[p], "user"))
    /\ UNCHANGED <<cfg, now, nextToken, mlog>>

(***************************************************************************)
(* POST /magic-link/request                                                *)
(***************************************************************************)
\* the same step without the test of allow_new_users
request_magic_link_NoPolicy(p) ==
    /\ CanStart(p)
    /\ \E email \in Emails :
          LET r == [NoReq EXCEPT !.op = "request_magic_link",
                                 !.email = email] IN
          IF ~is_provider_enabled("magic_link")
          THEN /\ Finish(p, HTTPException(r, HTTP_403_FORBIDDEN,
                            "Magic link authentication is disabled"))
               /\ UNCHANGED nextToken
          ELSE /\ nextToken <= MaxTokens
               /\ nextToken' = nextToken + 1
               /\ LET token == nextToken
                      expires == now + token_expire_minutes
                      u == scalar_one_or_none(SelectBy("email", email)) IN
                  IF u = NoUser
                  THEN Continue(p, r, "commit",
                                Local(NoUser, "insert", token, expires))
                  ELSE Continue(p, r, "commit",
                                Local(u, "update", token, expires))
    /\ UNCHANGED <<users, cfg, now, mlog>>

request_magic_link(p) ==
    /\ CanStart(p)
    /\ \E email \in Emails :
          LET r == [NoReq EXCEPT !.op = "request_magic_link",
                                 !.email = email] IN
          IF ~is_provider_enabled("magic_link")
          THEN /\ Finish(p, HTTPException(r, HTTP_403_FORBIDDEN,
                            "Magic link authentication is disabled"))
               /\ UNCHANGED nextToken
          ELSE /\ nextToken <= MaxTokens
               /\ nextToken' = nextToken + 1
               /\ LET token == nextToken
                      expires == now + token_expire_minutes
                      u == scalar_one_or_none(SelectBy("email", email)) IN
                  IF u = NoUser
                  THEN IF ~cfg.allow_new_users
                       THEN Finish(p, HTTPException(r, HTTP_404_NOT_FOUND,
                                      "User not found and new user registration via magic link is disabled"))
                       ELSE Continue(p, r, "commit",
                                Local(NoUser, "insert", token, expires))
                  ELSE Continue(p, r, "commit",
                                Local(u, "update", token, expires))
    /\ UNCHANGED <<users, cfg, now, mlog>>

\* the row request_magic_link adds for an email it did not find
PendingUser(email, token, expires) ==
    User(email, "NULL", "NULL", is_active_default, FALSE, "NULL", "NULL",
         NoPassword, token, expires)

\* a handler that leaves a pending token of the row in place
Reissued_KeepsPending(row, token, expires) ==
    IF row.email_verification_token = NoToken
    THEN [row EXCEPT !.email_verification_token = token,
                     !.email_verification_expires = expires]
    ELSE row

\* lines 204-206: what request_magic_link writes to the row it found
Reissued(row, token, expires) ==
    [row EXCEPT !.email_verification_token = token,
                !.email_verification_expires = expires]

request_magic_link_commit(p) ==
    /\ pc[p] = "commit" /\ req[p].op = "request_magic_link"
    /\ LET l == loc[p] IN
       IF l.mode = "insert"
       THEN /\ Len(users) < MaxUsers
            /\ LET row == PendingUser(req[p].email, l.token, l.expires) IN
               IF UniqueViolation(NoUser, row)
               THEN /\ Return(p, InternalError(req[p], "IntegrityError"))
                    /\ UNCHANGED <<users, mlog>>
               ELSE /\ Insert(row)
                    /\ mlog' = [mlog EXCEPT ![l.token].exp = l.expires]
                    /\ Return(p, PlainResponse(req[p],
                                               "Magic link sent to email"))
       ELSE /\ Update(l.uid, Reissued(users[l.uid], l.token, l.expires))
            /\ mlog' = [mlog EXCEPT ![l.token].exp = l.expires]
            /\ Return(p, PlainResponse(req[p], "Magic link sent to email"))
    /\ UNCHANGED <<cfg, now, nextToken>>

(***************************************************************************)
(* POST /magic-link/verify                                                 *)
(***************************************************************************)
\* the tokens a client can present: the ones issued so far, or another string
PresentableTokens == (1..(nextToken - 1)) \cup {BadToken}

\* history of the verifications of each magic-link token
LogVerify(token, ok) ==
    IF token \in 1..MaxTokens
    THEN mlog' = [mlog EXCEPT
                    ![token].tries = IF @ < 2 THEN @ + 1 ELSE @,
                    ![token].oks = IF ok /\ @ < 2 THEN @ + 1 ELSE @]
    ELSE UNCHANGED mlog

\* line 251: datetime.utcnow() > user.email_verification_expires
Expired_Never(expires) == FALSE

Expired(expires) == now > expires

\* a handler that clears the token of the row when it finds it expired
verify_magic_link_ClearsExpired(p) ==
    /\ CanStart(p)
    /\ \E token \in PresentableTokens :
          LET r == [NoReq EXCEPT !.op = "verify_magic_link",
                                 !.token = token]
              u == scalar_one_or_none(
                       SelectBy("email_verification_token", token)) IN
          IF ~is_provider_enabled("magic_link")
          THEN /\ Finish(p, HTTPException(r, HTTP_403_FORBIDDEN,
                            "Magic link authentication is disabled"))
               /\ LogVerify(token, FALSE)
               /\ UNCHANGED users
          ELSE IF u = MultipleResults
          THEN /\ Finish(p, InternalError(r, "MultipleResultsFound"))
               /\ LogVerify(token, FALSE)
               /\ UNCHANGED users
          ELSE IF u = NoUser
                  \/ users[u].email_verification_expires = NoExpiry
          THEN /\ Finish(p, HTTPException(r, HTTP_400_BAD_REQUEST,
                            "Invalid or expired token"))
               /\ LogVerify(token, FALSE)
               /\ UNCHANGED users
          ELSE IF Expired(users[u].email_verification_expires)
          THEN /\ Finish(p, HTTPException(r, HTTP_400_BAD_REQUEST,
                            "Token has expired"))
               /\ LogVerify(token, FALSE)
               /\ Update(u, [users[u] EXCEPT
                                !.email_verification_token = NoToken,
                                !.email_verification_expires = NoExpiry])
          ELSE /\ Continue(p, r, "commit",
                           Local(u, "update", token, NoExpiry))
               /\ UNCHANGED <<mlog, users>>
    /\ UNCHANGED <<cfg, now, nextToken>>

verify_magic_link(p) ==
    /\ CanStart(p)
    /\ \E token \in PresentableTokens :
          LET r == [NoReq EXCEPT !.op = "verify_magic_link",
                                 !.token = token]
              u == scalar_one_or_none(
                       SelectBy("email_verification_token", token)) IN
          IF ~is_provider_enabled("magic_link")
          THEN /\ Finish(p, HTTPException(r, HTTP_403_FORBIDDEN,
                            "Magic link authentication is disabled"))
               /\ LogVerify(token, FALSE)
          ELSE IF u = MultipleResults
          THEN /\ Finish(p, InternalError(r, "MultipleResultsFound"))
               /\ LogVerify(token, FALSE)
          ELSE IF u = NoUser
                  \/ users[u].email_verification_expires = NoExpiry
          THEN /\ Finish(p, HTTPException(r, HTTP_400_BAD_REQUEST,
                            "Invalid or expired token"))
               /\ LogVerify(token, FALSE)
          ELSE IF Expired(users[u].email_verification_expires)
          THEN /\ Finish(p, HTTPException(r, HTTP_400_BAD_REQUEST,
                            "Token has expired"))
               /\ LogVerify(token, FALSE)
          ELSE /\ Continue(p, r, "commit",
                           Local(u, "update", token, NoExpiry))
               /\ UNCHANGED mlog
    /\ UNCHANGED <<users, cfg, now, nextToken>>

\* lines 257-261: what a successful verification writes to the row
Verified_KeepsToken(row) ==
    [row EXCEPT !.is_verified = TRUE, !.is_active = TRUE]

Verified(row) ==
    [row EXCEPT !.is_verified = TRUE,
                !.email_verification_token = NoToken,
                !.email_verification_expires = NoExpiry,
                !.is_active = TRUE]

verify_magic_link_commit(p) ==
    /\ pc[p] = "commit" /\ req[p].op = "verify_magic_link"
    /\ Update(loc[p].uid, Verified(users[loc[p].uid]))
    /\ LogVerify(req[p].token, TRUE)
    /\ Return(p, TokenResponse(req[p], loc[p].uid))
    /\ UNCHANGED <<cfg, now, nextToken>>


(***************************************************************************)
(* POST /google and POST /apple: verify the assertion, then find the user  *)
(* by the provider's subject id, else by email (link), else create.        *)
(***************************************************************************)
ProviderColumn(op) == IF op = "google_auth" THEN "google_id" ELSE "apple_id"

\* lines 321-325: detail=f"Invalid Google token: {str(e)}"
GoogleErrorDetail(cause) ==
    CASE cause = "signature" -> "Invalid Google token: bad signature"
      [] cause = "audience" -> "Invalid Google token: wrong audience"
      [] cause = "expired" -> "Invalid Google token: token expired"
      [] cause = "issuer" -> "Invalid Google token: Wrong issuer."
      [] cause = "keys_unparsable" -> "Invalid Google token: Expecting value"

\* what lines 307-314 raise: verify_oauth2_token raises ValueError for an
\* assertion it rejects; fetching the certificates raises TransportError
\* when the endpoint cannot be reached and json.JSONDecodeError, a
\* ValueError, when its answer does not parse
GoogleException(cause) ==
    CASE cause = "ok" -> "none"
      [] cause = "keys_unreachable" -> "TransportError"
      [] OTHER -> "ValueError"

\* lines 328-329 and 424-425: the lookup by the provider's subject id
FederatedLookup(p, r) ==
    LET u == scalar_one_or_none(SelectBy(ProviderColumn(r.op), r.sub)) IN
    IF u # NoUser
    THEN Continue(p, r, "commit", Local(u, "reuse", NoToken, NoExpiry))
    ELSE Continue(p, r, "by_email", Local(NoUser, "none", NoToken, NoExpiry))

google_auth(p) ==
    /\ CanStart(p)
    /\ \E cause \in GoogleCauses, sub \in GoogleSubs, email \in Emails,
          name \in Names, picture \in Pictures :
          LET bad == [NoReq EXCEPT !.op = "google_auth", !.cause = cause]
              r == [bad EXCEPT !.sub = sub, !.email = email,
                               !.full_name = name, !.picture = picture] IN
          IF ~is_provider_enabled("google")
          THEN Finish(p, HTTPException(bad, HTTP_403_FORBIDDEN,
                         "Google authentication is disabled"))
          ELSE IF GoogleException(cause) = "ValueError"
          THEN Finish(p, HTTPException(bad, HTTP_400_BAD_REQUEST,
                         GoogleErrorDetail(cause)))
          ELSE IF GoogleException(cause) # "none"
          THEN Finish(p, InternalError(bad, GoogleException(cause)))
          ELSE FederatedLookup(p, r)
    /\ UNCHANGED <<users, cfg, now, nextToken, mlog>>

\* app/schemas/auth.py: AppleAuthRequest.authorization is a pydantic model,
\* an object without a get method, so line 397 raises AttributeError
AppleAuthAuthorization_has_get == FALSE

apple_auth(p) ==
    /\ CanStart(p)
    /\ \E cause \in AppleCauses, sub \in AppleSubs, email \in Emails,
          name \in Names :
          LET bad == [NoReq EXCEPT !.op = "apple_auth", !.cause = cause]
              r == [bad EXCEPT !.sub = sub, !.email = email,
                               !.full_name = name] IN
          IF ~is_provider_enabled("apple")
          THEN Finish(p, HTTPException(bad, HTTP_403_FORBIDDEN,
                         "Apple authentication is disabled"))
          ELSE IF ~AppleAuthAuthorization_has_get
          THEN Finish(p, HTTPException(r, HTTP_400_BAD_REQUEST,
                         "Apple authentication failed: AttributeError"))
          ELSE FederatedLookup(p, r)
    /\ UNCHANGED <<users, cfg, now, nextToken, mlog>>

\* lines 333-334 and 429-430: the lookup by email when the subject is unknown
federated_by_email(p) ==
    /\ pc[p] = "by_email"
    /\ LET u == scalar_one_or_none(SelectBy("email", req[p].email)) IN
       /\ pc' = [pc EXCEPT ![p] = "commit"]
       /\ loc' = [loc EXCEPT ![p].uid = u,
                             ![p].mode = IF u # NoUser THEN "link"
                                         ELSE "insert"]
    /\ UNCHANGED <<users, cfg, now, nextToken, nreq, req, resp, mlog, slog,
                   tokenVars, appleVars, limiterVars>>

\* lines 341-348 and 437-443: the row a federated login creates
FederatedUser_NoSubject(r) ==
    User(r.email, r.full_name, r.picture, TRUE, TRUE, "NULL", "NULL",
         NoPassword, NoToken, NoExpiry)

\* the same row left unverified
FederatedUser_Unverified(r) ==
    User(r.email, r.full_name, r.picture, TRUE, FALSE,
         IF r.op = "google_auth" THEN r.sub ELSE "NULL",
         IF r.op = "google_auth" THEN "NULL" ELSE r.sub,
         NoPassword, NoToken, NoExpiry)

FederatedUser(r) ==
    IF r.op = "google_auth"
    THEN User(r.email, r.full_name, r.picture, TRUE, TRUE, r.sub, "NULL",
              NoPassword, NoToken, NoExpiry)
    ELSE User(r.email, r.full_name, "NULL", TRUE, TRUE, "NULL", r.sub,
              NoPassword, NoToken, NoExpiry)

\* lines 338 and 434: the row after linking the provider's subject id
Linked_Noop(row, r) == row

Linked(row, r) == [row EXCEPT ![ProviderColumn(r.op)] = r.sub]

\* a handler that refreshes the profile from the assertion on every login
Reused_Refreshed(row, r) ==
    [row EXCEPT !.full_name = r.full_name, !.avatar_url = r.picture]

\* lines 328-331 and 424-427: the row found by subject id is not written
Reused(row, r) == row

federated_commit(p) ==
    /\ pc[p] = "commit" /\ req[p].op \in {"google_auth", "apple_auth"}
    /\ LET r == req[p]
           l == loc[p] IN
       CASE l.mode = "reuse" ->
               /\ Update(l.uid, Reused(users[l.uid], r))
               /\ Return(p, TokenResponse(r, l.uid))
         [] l.mode = "link" ->
               IF UniqueViolation(l.uid, Linked(users[l.uid], r))
               THEN /\ UNCHANGED users
                    /\ Return(p, InternalError(r, "IntegrityError"))
               ELSE /\ Update(l.uid, Linked(users[l.uid], r))
                    /\ Return(p, TokenResponse(r, l.uid))
         [] l.mode = "insert" ->
               /\ Len(users) < MaxUsers
               /\ IF UniqueViolation(NoUser, FederatedUser(r))
                  THEN /\ UNCHANGED users
                       /\ Return(p, InternalError(r, "IntegrityError"))
                  ELSE /\ Insert(FederatedUser(r))
                       /\ Return(p, TokenResponse(r, Len(users) + 1))
    /\ UNCHANGED <<cfg, now, nextToken, mlog>>

(***************************************************************************)
(* The steps of the request that process p is serving: the handlers that   *)
(* write to the users table, and the ones that only read it.               *)
(***************************************************************************)
WriteStep(p) ==
    \/ register_email(p)
    \/ register_commit(p)
    \/ request_magic_link(p)
    \/ request_magic_link_commit(p)
    \/ verify_magic_link(p)
    \/ verify_magic_link_commit(p)
    \/ google_auth(p)
    \/ apple_auth(p)
    \/ federated_by_email(p)
    \/ federated_commit(p)

ReadStep(p) ==
    \/ login_email(p)
    \/ refresh_token(p)
    \/ logout(p)

Quiet == \A p \in Procs : pc[p] = "idle"

\* sequential histories: one request at a time, the clock moves between them
Next ==
    \/ Quiet /\ Tick
    \/ \E p \in SeqProcs : WriteStep(p) \/ ReadStep(p)

Spec == Init /\ [][Next]_vars

\* two requests that write, one per process, served concurrently, each in
\* its own database session
NextConc ==
    \/ Tick
    \/ \E p \in Procs : WriteStep(p) /\ (pc[p] = "idle" => resp[p].seq = 0)

SpecConc == Init /\ [][NextConc]_vars

(***************************************************************************)
(* The service at rest, for the specifications that exercise one           *)
(* component on its own.                                                   *)
(***************************************************************************)
serviceVars == <<users, cfg, nextToken, nreq, pc, req, loc, resp, mlog, slog>>

StartService ==
    /\ users = <<>>
    /\ cfg = AuthConfig(TRUE, TRUE, TRUE, TRUE, TRUE, TRUE)
    /\ nextToken = 1
    /\ mlog = [t \in 1..MaxTokens |-> NoLog]
    /\ nreq = 0
    /\ pc = [p \in Procs |-> "idle"]
    /\ req = [p \in Procs |-> NoReq]
    /\ loc = [p \in Procs |-> NoLoc]
    /\ resp = [p \in Procs |-> NoResp]
    /\ slog = NoSession

(***************************************************************************)
(* app/core/security.py on its own: create_access_token with a lifetime    *)
(* given by the caller, then verify_token on the token it returned.        *)
(***************************************************************************)
\* the lifetimes a caller passes: none, or a number of ticks of either sign
Deltas == {None} \cup {Some(d) : d \in (0 - MaxTime)..MaxTime}

mint_access_token ==
    /\ \E sub \in 1..MaxUsers, expires_delta \in Deltas :
          minted' = [sub |-> sub, delta |-> expires_delta, at |-> now,
                     jwt |-> create_access_token(sub, expires_delta)]
    /\ verdict' = NoVerdict
    /\ UNCHANGED <<now, serviceVars, appleVars, limiterVars>>

\* strings that this service did not mint: a token signed with another
\* secret, and a string that is no JWT
Forged ==
    {[sub |-> 1, exp |-> MaxTime + 1, sig |-> "bad", kind |-> "access"],
     [sub |-> NoUser, exp |-> 0, sig |-> "malformed", kind |-> "none"]}

\* lines 54-62: the payload is returned, or 401 is raised
check_token ==
    /\ minted # NoMint
    /\ \E token \in {minted.jwt} \cup Forged :
          verdict' = [at |-> now, jwt |-> token,
                      status |-> IF verify_token(token)
                                 THEN HTTP_200_OK
                                 ELSE HTTP_401_UNAUTHORIZED,
                      sub |-> IF verify_token(token)
                              THEN token.sub
                              ELSE NoUser]
    /\ UNCHANGED <<now, minted, serviceVars, appleVars, limiterVars>>

InitToken ==
    /\ now = 0
    /\ StartService
    /\ StartToken
    /\ StartApple
    /\ StartLimiter

NextToken ==
    \/ Tick
    \/ mint_access_token
    \/ check_token

SpecToken == InitToken /\ [][NextToken]_vars

(***************************************************************************)
(* app/core/apple_auth.py on its own: calls of the verifier made by        *)
(* concurrent tasks of the event loop.  A call that contains no await runs *)
(* in one step; get_apple_public_keys is cut by its await of the GET.      *)
(***************************************************************************)
Environments == {"development", "production", "staging"}

\* the ID tokens presented, named by what is wrong with them
AppleTokens == {"valid", "no_kid", "bad_signature", "expired"}

\* the answer of https://appleid.apple.com/auth/keys
Upstreams == {"ok", "unreachable", "unparsable", "error_status"}

cache_duration == 1

\* the result of a call: the path taken, whether the token was decoded, what
\* was returned or raised, and the status when an HTTPException was raised
Outcome(path, decoded, outcome, status) ==
    [path |-> path, decoded |-> decoded, outcome |-> outcome,
     status |-> status]

\* lines 57-75: signature and audience are not verified, the expiry is
verify_development_token(token) ==
    IF settings.environment = "production"
    THEN Outcome("development", FALSE, "ValueError", 0)
    ELSE IF token = "expired"
    THEN Outcome("development", TRUE, "HTTPException",
                 HTTP_400_BAD_REQUEST)
    ELSE Outcome("development", TRUE, "claims", 0)

\* lines 77-118: the HTTPException of line 85 and the PyJWKClientError of a
\* failed key fetch are not InvalidTokenError, so line 114 catches them
verify_production_token(token, upstream) ==
    IF token = "no_kid"
    THEN Outcome("production", FALSE, "HTTPException", HTTP_400_BAD_REQUEST)
    ELSE IF upstream # "ok"
    THEN Outcome("production", FALSE, "HTTPException", HTTP_400_BAD_REQUEST)
    ELSE IF token # "valid"
    THEN Outcome("production", FALSE, "HTTPException",
                 HTTP_401_UNAUTHORIZED)
    ELSE Outcome("production", TRUE, "claims", 0)

\* line 127: the condition under which the signature check is skipped
UseDevelopmentPath_DebugOnly == settings.debug

UseDevelopmentPath == settings.environment = "development" /\ settings.debug

\* lines 120-130
AppleJWTVerifier_verify_token(token, upstream) ==
    IF UseDevelopmentPath
    THEN verify_development_token(token)
    ELSE verify_production_token(token, upstream)

Idle(p) == call[p].pc = "idle"

Called(p, op, token, result) ==
    call' = [call EXCEPT ![p] =
                [op |-> op, pc |-> "idle", current_time |-> 0,
                 token |-> token,
                 path |-> result.path, decoded |-> result.decoded,
                 outcome |-> result.outcome, status |-> result.status]]

call_verify_token(p) ==
    /\ Idle(p)
    /\ \E token \in AppleTokens, upstream \in Upstreams :
          Called(p, "verify_token", token,
                 AppleJWTVerifier_verify_token(token, upstream))
    /\ UNCHANGED <<now, settings, verifier, serviceVars, tokenVars,
                   limiterVars>>

call_verify_development_token(p) ==
    /\ Idle(p)
    /\ \E token \in AppleTokens :
          Called(p, "verify_development_token", token,
                 verify_development_token(token))
    /\ UNCHANGED <<now, settings, verifier, serviceVars, tokenVars,
                   limiterVars>>

\* lines 29-37: the cache is read, and when it holds no fresh keys the GET
\* is sent and awaited
get_apple_public_keys(p) ==
    /\ Idle(p)
    /\ IF verifier.cached_keys # "NULL" /\ now < verifier.cache_expiry
       THEN Called(p, "get_apple_public_keys", "NULL",
                   Outcome("cache", FALSE, verifier.cached_keys, 0))
       ELSE call' = [call EXCEPT ![p] =
                        [NoCall EXCEPT !.op = "get_apple_public_keys",
                                       !.pc = "fetching",
                                       !.current_time = now]]
    /\ UNCHANGED <<now, settings, verifier, serviceVars, tokenVars,
                   limiterVars>>

\* lines 38-55: the GET has answered or failed
get_apple_public_keys_done(p) ==
    /\ call[p].pc = "fetching"
    /\ \E upstream \in Upstreams :
          CASE upstream = "ok" ->
                  /\ verifier' = [cached_keys |-> "keys",
                                  cache_expiry |->
                                      call[p].current_time + cache_duration]
                  /\ Called(p, "get_apple_public_keys", "NULL",
                            Outcome("fetch", FALSE, "keys", 0))
            [] upstream \in {"unreachable", "unparsable"} ->
                  /\ UNCHANGED verifier
                  /\ Called(p, "get_apple_public_keys", "NULL",
                            Outcome("fetch", FALSE, "HTTPException",
                                    HTTP_503_SERVICE_UNAVAILABLE))
            [] upstream = "error_status" ->
                  /\ UNCHANGED verifier
                  /\ Called(p, "get_apple_public_keys", "NULL",
                            Outcome("fetch", FALSE, "HTTPStatusError", 0))
    /\ UNCHANGED <<now, settings, serviceVars, tokenVars,
                   limiterVars>>

\* the GETs of the keys endpoint that are in flight
InFlight == {p \in Procs : call[p].pc = "fetching"}

InitApple ==
    /\ now = 0
    /\ StartService
    /\ StartToken
    /\ settings \in {Settings(e, d) : e \in Environments, d \in BOOLEAN}
    /\ verifier = AppleJWTVerifier
    /\ call = [p \in Procs |-> NoCall]
    /\ StartLimiter

NextApple ==
    \/ Tick
    \/ \E p \in Procs :
          \/ call_verify_token(p)
          \/ call_verify_development_token(p)
          \/ get_apple_public_keys(p)
          \/ get_apple_public_keys_done(p)

SpecApple == InitApple /\ [][NextApple]_vars

(***************************************************************************)
(* app/core/security_config.py on its own: the requests of each client     *)
(* pass through RateLimitingMiddleware.dispatch where it is installed.     *)
(* dispatch contains no await before call_next, so it runs in one step.    *)
(* time.time() is the clock `now`.                                         *)
(***************************************************************************)
\* line 235: add_middleware(RateLimitingMiddleware, calls=1000, period=3600)
calls == 2

period == 2

\* the values of get_client_ip (lines 64-75)
Clients == {"10.0.0.1", "unknown"}

\* lines 234-235: the middleware is added in production only
Installed == settings.environment = "production"

\* a request that arrived: its client, when it arrived, whether the rate
\* limiter saw it, whether it was passed on, and the status the limiter
\* raised
Arrival(client_ip, current_time, limited, admitted, status) ==
    [client |-> client_ip, at |-> current_time, limited |-> limited,
     admitted |-> admitted, status |-> status]

\* lines 85-90: the timestamps younger than period are kept
Clean(timestamps, current_time) ==
    SelectSeq(timestamps,
              LAMBDA timestamp : current_time - timestamp < period)

\* a limit that lets one request too many through
Limited_OffByOne(timestamps) == Len(timestamps) > calls

\* line 96: len(self.clients[client_ip]) >= self.calls
Limited(timestamps) == Len(timestamps) >= calls

\* clients[client_ip] = timestamps, for a key that may be new
Store(clients, client_ip, timestamps) ==
    [k \in DOMAIN clients \cup {client_ip} |->
        IF k = client_ip THEN timestamps ELSE clients[k]]

\* lines 77-105
dispatch ==
    /\ Installed
    /\ Len(limiter.arrivals) < MaxArrivals
    /\ \E client_ip \in Clients :
          LET current_time == now
              cleaned ==
                 IF client_ip \in DOMAIN limiter.clients
                 THEN Store(limiter.clients, client_ip,
                            Clean(limiter.clients[client_ip], current_time))
                 ELSE limiter.clients
              known ==
                 IF client_ip \notin DOMAIN cleaned
                 THEN Store(cleaned, client_ip, <<>>)
                 ELSE cleaned IN
          IF settings.environment = "development"
          THEN limiter' =
                  [limiter EXCEPT !.arrivals =
                      Append(@, Arrival(client_ip, current_time, FALSE,
                                        TRUE, 0))]
          ELSE IF Limited(known[client_ip])
          THEN limiter' =
                  [clients |-> known,
                   arrivals |->
                      Append(limiter.arrivals,
                             Arrival(client_ip, current_time, TRUE, FALSE,
                                     HTTP_429_TOO_MANY_REQUESTS))]
          ELSE limiter' =
                  [clients |-> Store(known, client_ip,
                                     Append(known[client_ip], current_time)),
                   arrivals |->
                      Append(limiter.arrivals,
                             Arrival(client_ip, current_time, TRUE, TRUE,
                                     0))]
    /\ UNCHANGED <<now, serviceVars, tokenVars, appleVars>>

\* a request to an application that has no rate limiting middleware
call_next ==
    /\ ~Installed
    /\ Len(limiter.arrivals) < MaxArrivals
    /\ \E client_ip \in Clients :
          limiter' = [limiter EXCEPT !.arrivals =
                         Append(@, Arrival(client_ip, now, FALSE, TRUE, 0))]
    /\ UNCHANGED <<now, serviceVars, tokenVars, appleVars>>

InitLimiter ==
    /\ now = 0
    /\ StartService
    /\ StartToken
    /\ settings \in {Settings(e, FALSE) : e \in Environments}
    /\ verifier = AppleJWTVerifier
    /\ call = [p \in Procs |-> NoCall]
    /\ StartLimiter

NextLimiter ==
    \/ Tick
    \/ dispatch
    \/ call_next

SpecLimiter == InitLimiter /\ [][NextLimiter]_vars


(***************************************************************************)
(* Properties.                                                             *)
(***************************************************************************)
\* this step returns a response to the request of process p
Responded(p) == resp'[p].seq # resp[p].seq

IsTokenPair(r) ==
    r.status = HTTP_200_OK /\ r.access.sig = "ok" /\ r.refresh.sig = "ok"

NoTokens(r) == r.access = NoJwt /\ r.refresh = NoJwt

Federated == {"google_auth", "apple_auth"}

VerifyResponded(p) ==
    /\ Responded(p)
    /\ resp'[p].req.op = "verify_magic_link"
    /\ resp'[p].req.token \in 1..MaxTokens

\* C1 as stated: for every token T issued by request_magic_link, the first
\* verify_magic_link(T) made before the expiry succeeds with a token pair,
\* and every later verify_magic_link(T) fails with 400 and issues no tokens.
C1_SingleUseAsClaimed ==
    [][\A p \in Procs : VerifyResponded(p) =>
          LET l == mlog[resp'[p].req.token] IN
          /\ (l.exp # NoExpiry /\ l.tries = 0 /\ now <= l.exp)
                => IsTokenPair(resp'[p])
          /\ l.tries > 0
                => /\ resp'[p].status = HTTP_400_BAD_REQUEST
                   /\ NoTokens(resp'[p])]_vars

\* C1 amended: for every token T issued by request_magic_link and not
\* replaced by a later request_magic_link for the same email (T is still the
\* token stored on the record), the first verify_magic_link(T) made before
\* the expiry succeeds with a token pair for that record, and every later
\* verify_magic_link(T) fails with 400 and issues no tokens.
C1_MagicLinkSingleUse ==
    [][\A p \in Procs : VerifyResponded(p) =>
          LET T == resp'[p].req.token
              l == mlog[T] IN
          /\ \A u \in Ids :
                (/\ users[u].email_verification_token = T
                 /\ l.exp # NoExpiry /\ l.tries = 0 /\ now <= l.exp)
                => /\ IsTokenPair(resp'[p])
                   /\ resp'[p].access.sub = u
          /\ l.tries > 0
                => /\ resp'[p].status = HTTP_400_BAD_REQUEST
                   /\ NoTokens(resp'[p])]_vars

\* a token was verified once with success, and its second verification failed
C1_Witness ==
    \E p \in Procs :
        /\ resp[p].req.op = "verify_magic_link"
        /\ resp[p].req.token \in 1..MaxTokens
        /\ mlog[resp[p].req.token].oks = 1
        /\ mlog[resp[p].req.token].tries = 2
        /\ resp[p].status = HTTP_400_BAD_REQUEST

\* C2: two concurrent verify_magic_link calls with the same live token give
\* at most one success: no magic-link token is verified successfully twice.
C2_ConcurrentVerifyOneSuccess ==
    \A t \in 1..MaxTokens : mlog[t].oks <= 1

\* C3: whenever a login path returns a token pair, the user it names is
\* active at that moment; an inactive record gets no pair through a
\* federated login.
C3_TokensOnlyForActive ==
    [][\A p \in Procs : (Responded(p) /\ IsTokenPair(resp'[p])) =>
          /\ resp'[p].access.sub \in 1..Len(users')
          /\ users'[resp'[p].access.sub].is_active]_vars

\* C4: for a user with is_active = false, login_email (whatever the
\* password, the correct one included) and refresh with a valid token whose
\* subject is that user both fail with 401 and issue no tokens.
C4_InactiveGate ==
    [][\A p \in Procs : Responded(p) =>
          LET r == resp'[p].req IN
          /\ (/\ r.op = "login_email"
              /\ \E u \in Ids : users[u].email = r.email /\ ~users[u].is_active)
                => /\ resp'[p].status = HTTP_401_UNAUTHORIZED
                   /\ NoTokens(resp'[p])
          /\ (/\ r.op = "refresh_token"
              /\ verify_token(r.jwt)
              /\ r.jwt.sub \in Ids
              /\ ~users[r.jwt.sub].is_active)
                => /\ resp'[p].status = HTTP_401_UNAUTHORIZED
                   /\ NoTokens(resp'[p])]_vars

\* an inactive account presented its correct password and was refused
C4_Witness ==
    \E p \in Procs, u \in Ids :
        /\ resp[p].req.op = "login_email"
        /\ users[u].email = resp[p].req.email
        /\ ~users[u].is_active
        /\ verify_password(resp[p].req.password, users[u].hashed_password)
        /\ resp[p].status = HTTP_401_UNAUTHORIZED
        /\ resp[p].detail = "Account is disabled"

\* C5: under every interleaving, no two rows share an email, a non-null
\* google_id or a non-null apple_id.
C5_Uniqueness ==
    \A u, v \in Ids : u # v =>
        /\ users[u].email # users[v].email
        /\ users[u].google_id # "NULL"
              => users[u].google_id # users[v].google_id
        /\ users[u].apple_id # "NULL"
              => users[u].apple_id # users[v].apple_id

\* two requests passed their lookups before either committed, and the
\* second commit was refused by a UNIQUE constraint
C5_Witness ==
    \E p, q \in Procs :
        /\ p # q
        /\ resp[p].detail = "IntegrityError"
        /\ resp[q].status = HTTP_200_OK
        /\ resp[q].seq < resp[p].seq + 2
        /\ Len(users) > 0

\* C6: register_email with an email that already belongs to a record fails
\* with a conflict-class (409) error and leaves the users table unchanged.
\* The requests considered are those that reach the duplicate check, that is
\* with email-password login and registration both enabled by the policy.
C6_RegisterDuplicateConflict ==
    [][\A p \in Procs :
          (/\ Responded(p)
           /\ resp'[p].req.op = "register_email"
           /\ is_provider_enabled("email_password")
           /\ cfg.allow_registration
           /\ \E u \in Ids : users[u].email = resp'[p].req.email)
          => /\ resp'[p].status = HTTP_409_CONFLICT
             /\ users' = users]_vars

\* C7: two successive successful logins of one provider with the same
\* subject id return tokens for the same user id, and the second adds no row.
C7_FederatedIdempotence ==
    [][\A p \in Procs :
          (/\ Responded(p)
           /\ resp'[p].req.op \in Federated
           /\ IsTokenPair(resp'[p])
           /\ resp[p].req.op = resp'[p].req.op
           /\ IsTokenPair(resp[p])
           /\ resp[p].req.sub = resp'[p].req.sub
           /\ resp'[p].seq = resp[p].seq + 1)
          => /\ resp'[p].access.sub = resp[p].access.sub
             /\ Len(users') = Len(users)]_vars

\* the second request was a Google login for the subject of the row that the
\* first request, a Google login, had created; it carried another email
C7_Witness ==
    \E p \in Procs :
        /\ resp[p].seq = 2
        /\ resp[p].req.op = "google_auth"
        /\ IsTokenPair(resp[p])
        /\ Len(users) = 1
        /\ resp[p].access.sub = 1
        /\ users[1].google_id = resp[p].req.sub
        /\ users[1].is_verified
        /\ users[1].hashed_password = NoPassword
        /\ users[1].email # resp[p].req.email

\* C8: a successful federated login whose subject id is unknown for the
\* provider and whose email is the email of an existing row sets the
\* provider's subject id on that row, returns tokens for it, adds no row.
C8_CrossProviderLinking ==
    [][\A p \in Procs, u \in Ids :
          (/\ Responded(p)
           /\ resp'[p].req.op \in Federated
           /\ IsTokenPair(resp'[p])
           /\ SelectBy(ProviderColumn(resp'[p].req.op), resp'[p].req.sub) = {}
           /\ users[u].email = resp'[p].req.email)
          => /\ users'[u][ProviderColumn(resp'[p].req.op)] = resp'[p].req.sub
             /\ resp'[p].access.sub = u
             /\ Len(users') = Len(users)]_vars

\* a Google login was linked onto a row that holds a password
C8_Witness ==
    \E p \in Procs, u \in Ids :
        /\ resp[p].req.op = "google_auth"
        /\ IsTokenPair(resp[p])
        /\ resp[p].access.sub = u
        /\ resp[p].req.sub = "g2"
        /\ users[u].google_id = "g2"
        /\ users[u].email = resp[p].req.email
        /\ users[u].hashed_password # NoPassword

\* C9: verify_magic_link(T) after the expiry stored with T fails with 400
\* though T is the stored token; it issues no tokens and writes nothing.
C9_MagicLinkExpiry ==
    [][\A p \in Procs, u \in Ids :
          (/\ Responded(p)
           /\ resp'[p].req.op = "verify_magic_link"
           /\ users[u].email_verification_token = resp'[p].req.token
           /\ users[u].email_verification_expires # NoExpiry
           /\ now > users[u].email_verification_expires)
          => /\ resp'[p].status = HTTP_400_BAD_REQUEST
             /\ NoTokens(resp'[p])
             /\ users' = users]_vars

\* the stored token was presented after its expiry and refused
C9_Witness ==
    \E p \in Procs, u \in Ids :
        /\ resp[p].req.op = "verify_magic_link"
        /\ users[u].email_verification_token = resp[p].req.token
        /\ now > users[u].email_verification_expires
        /\ ~users[u].is_verified
        /\ resp[p].detail = "Token has expired"

\* C10: request_magic_link for an email without a row, new users allowed,
\* adds exactly one row, unverified and inactive, holding the token and
\* the expiry.
C10_MagicLinkCreatesPending ==
    [][\A p \in Procs :
          (/\ Responded(p)
           /\ resp'[p].req.op = "request_magic_link"
           /\ resp'[p].status = HTTP_200_OK
           /\ SelectBy("email", resp'[p].req.email) = {})
          => /\ Len(users') = Len(users) + 1
             /\ users'[Len(users')].email = resp'[p].req.email
             /\ ~users'[Len(users')].is_verified
             /\ ~users'[Len(users')].is_active
             /\ users'[Len(users')].email_verification_token # NoToken
             /\ users'[Len(users')].email_verification_expires # NoExpiry]_vars

\* C11: for every lifetime d <= 0, zero included, the token that
\* create_access_token returns for expires_delta = d fails verify_token
\* with 401.
C11_TokenExpiry ==
    (/\ verdict.status # 0
     /\ verdict.jwt = minted.jwt
     /\ minted.delta # None
     /\ minted.delta[1] <= 0)
    => verdict.status = HTTP_401_UNAUTHORIZED

\* C12: with the email-password provider enabled, login_email answers 401
\* and issues no tokens when no row has the email, when the row has no
\* hashed_password, when the password does not verify against the stored
\* hash, or when the row is inactive; in every other case it returns an
\* access token and a refresh token whose subject is the row's id.
C12_LoginOutcomes ==
    [][\A p \in Procs :
          (/\ Responded(p)
           /\ resp'[p].req.op = "login_email"
           /\ is_provider_enabled("email_password"))
          => LET r == resp'[p].req
                 rows == SelectBy("email", r.email) IN
             IF \/ rows = {}
                \/ \E u \in rows :
                      \/ users[u].hashed_password = NoPassword
                      \/ ~verify_password(r.password,
                                          users[u].hashed_password)
                      \/ ~users[u].is_active
             THEN /\ resp'[p].status = HTTP_401_UNAUTHORIZED
                  /\ NoTokens(resp'[p])
             ELSE /\ IsTokenPair(resp'[p])
                  /\ \A u \in rows :
                        /\ resp'[p].access.sub = u
                        /\ resp'[p].refresh.sub = u
                  /\ resp'[p].access.kind = "access"
                  /\ resp'[p].refresh.kind = "refresh"]_vars

\* the account was created by a magic-link request, so it has no password,
\* and a password login for it was answered 401
C12_Witness ==
    \E p \in Procs, u \in Ids :
        /\ resp[p].req.op = "login_email"
        /\ users[u].email = resp[p].req.email
        /\ users[u].hashed_password = NoPassword
        /\ users[u].is_active
        /\ is_provider_enabled("email_password")
        /\ resp[p].status = HTTP_401_UNAUTHORIZED
        /\ resp[p].detail = "Invalid email or password"

\* the users table without the row of an email
Without(store, email) == SelectSeq(store, LAMBDA row : row.email # email)

\* C13: for two stores that differ only in whether a row with email E
\* exists, login_email(E, p) with a password p that is not the row's
\* password has the same status and the same message in both: the answer
\* given with the row present is the answer the handler gives on the store
\* without the row.
C13_LoginNonDisclosure ==
    [][\A p \in Procs :
          (/\ Responded(p)
           /\ resp'[p].req.op = "login_email"
           /\ \E u \in SelectBy("email", resp'[p].req.email) :
                 ~verify_password(resp'[p].req.password,
                                  users[u].hashed_password))
          => LET r == resp'[p].req
                 absent == LoginOutcomeIn(Without(users, r.email), r) IN
             /\ resp'[p].status = absent.status
             /\ resp'[p].detail = absent.detail]_vars

\* a registered, active account was presented a wrong password and got the
\* answer of an unknown email
C13_Witness ==
    \E p \in Procs, u \in Ids :
        /\ resp[p].req.op = "login_email"
        /\ users[u].email = resp[p].req.email
        /\ users[u].hashed_password # NoPassword
        /\ users[u].is_active
        /\ ~verify_password(resp[p].req.password, users[u].hashed_password)
        /\ resp[p].status = HTTP_401_UNAUTHORIZED
        /\ resp[p].detail = "Invalid email or password"

\* the policy switch of the method an endpoint belongs to
ProviderOf(op) ==
    CASE op \in {"login_email", "register_email"} -> "email_password"
      [] op \in {"request_magic_link", "verify_magic_link"} -> "magic_link"
      [] op = "google_auth" -> "google"
      [] op = "apple_auth" -> "apple"

GatedEndpoints ==
    {"login_email", "register_email", "request_magic_link",
     "verify_magic_link", "google_auth", "apple_auth"}

\* C14: when a method is disabled by the policy, every endpoint of that
\* method answers 403 in the step that receives the request, before any
\* lookup, token generation or assertion verification, issues no tokens and
\* leaves the users table unchanged.
C14_DisabledProviderGate ==
    [][\A p \in Procs :
          (/\ Responded(p)
           /\ resp'[p].req.op \in GatedEndpoints
           /\ ~cfg[ProviderOf(resp'[p].req.op)])
          => /\ resp'[p].status = HTTP_403_FORBIDDEN
             /\ NoTokens(resp'[p])
             /\ nreq' = nreq + 1
             /\ users' = users
             /\ nextToken' = nextToken]_vars

\* Google login is disabled, and a request whose assertion has a bad
\* signature was refused with 403, not with the 400 of the verification
C14_Witness ==
    \E p \in Procs :
        /\ ~cfg.google
        /\ resp[p].req.op = "google_auth"
        /\ resp[p].req.cause = "signature"
        /\ resp[p].status = HTTP_403_FORBIDDEN
        /\ resp[p].detail = "Google authentication is disabled"

\* C15: with environment = "production", whatever the debug flag,
\* AppleJWTVerifier.verify_token takes the path that verifies signature,
\* audience and issuer, so only a valid token is decoded, and a direct call
\* of verify_development_token fails without decoding the token; the path
\* that skips the signature is taken only with environment = "development"
\* and debug true.
C15_NoBypassInProduction ==
    \A p \in Procs :
        /\ call[p].op = "verify_token"
              => /\ settings.environment = "production"
                       => /\ call[p].path = "production"
                          /\ call[p].decoded => call[p].token = "valid"
                 /\ call[p].path = "development"
                       => /\ settings.environment = "development"
                          /\ settings.debug
        /\ (/\ call[p].op = "verify_development_token"
            /\ settings.environment = "production")
              => /\ call[p].outcome = "ValueError"
                 /\ ~call[p].decoded

\* in production with debug on, verify_token refused a token with a bad
\* signature, and a direct call of verify_development_token raised
C15_Witness ==
    \E p, q \in Procs :
        /\ settings = Settings("production", TRUE)
        /\ call[p].op = "verify_token"
        /\ call[p].token = "bad_signature"
        /\ call[p].path = "production"
        /\ call[p].status = HTTP_401_UNAUTHORIZED
        /\ call[q].op = "verify_development_token"
        /\ call[q].outcome = "ValueError"

\* the statuses of the service-unavailable class
ServiceUnavailableClass == {502, HTTP_503_SERVICE_UNAVAILABLE}

\* C16: for the Google and the Apple login, a failure to fetch the
\* provider's signing keys (the endpoint is unreachable or its answer does
\* not parse) is answered with a status of the service-unavailable class
\* (502/503), never with the 400 or 401 of an invalid assertion.
C16_UpstreamUnavailable ==
    [][\A p \in Procs :
          (/\ Responded(p)
           /\ resp'[p].req.op \in Federated
           /\ cfg[ProviderOf(resp'[p].req.op)]
           /\ resp'[p].req.cause \in KeyFetchFailures)
          => resp'[p].status \in ServiceUnavailableClass]_vars

\* this step answers a Google login whose assertion fails verification
GoogleFailed(r) ==
    /\ r.req.op = "google_auth"
    /\ r.req.cause \in AssertionFailures
    /\ r.status # HTTP_403_FORBIDDEN

\* C17: whether the assertion fails on signature, issuer, audience or
\* expiry, google_auth gives the same 400 answer with the same content: two
\* failing requests that differ only in the cause of the failure get
\* identical responses; no row is created or changed.
C17_GoogleFailuresIndistinguishable ==
    [][\A p \in Procs :
          (Responded(p) /\ GoogleFailed(resp'[p]))
          => /\ resp'[p].status = HTTP_400_BAD_REQUEST
             /\ users' = users
             /\ GoogleFailed(resp[p])
                   => /\ resp'[p].status = resp[p].status
                      /\ resp'[p].detail = resp[p].detail]_vars

\* C18: refresh returns a new pair only when the presented token was minted
\* by create_refresh_token, is correctly signed and unexpired, and names an
\* existing active user; the new pair carries the subject of the presented
\* token; a token minted as an access token is rejected with 401.
C18_RefreshNeedsRefreshToken ==
    [][\A p \in Procs :
          (Responded(p) /\ resp'[p].req.op = "refresh_token")
          => LET jwt == resp'[p].req.jwt IN
             /\ IsTokenPair(resp'[p])
                   => /\ jwt.kind = "refresh"
                      /\ verify_token(jwt)
                      /\ jwt.sub \in Ids
                      /\ users[jwt.sub].is_active
                      /\ resp'[p].access.sub = jwt.sub
                      /\ resp'[p].refresh.sub = jwt.sub
             /\ jwt.kind = "access"
                   => /\ resp'[p].status = HTTP_401_UNAUTHORIZED
                      /\ NoTokens(resp'[p])]_vars

\* C19: a session token is accepted at every time before its expiry,
\* whatever happened since it was issued: refresh(R) with a correctly signed,
\* unexpired R of an active user succeeds also when R was refreshed before
\* and when a logout was answered before.
C19_NoRevocation ==
    [][\A p \in Procs :
          (/\ Responded(p)
           /\ resp'[p].req.op = "refresh_token"
           /\ verify_token(resp'[p].req.jwt)
           /\ resp'[p].req.jwt.sub \in Ids
           /\ users[resp'[p].req.jwt.sub].is_active)
          => /\ IsTokenPair(resp'[p])
             /\ resp'[p].access.sub = resp'[p].req.jwt.sub]_vars

\* the same refresh token was accepted by two successive refresh requests
C19_Witness ==
    \E p \in Procs :
        /\ Len(slog.refreshed) = 2
        /\ slog.refreshed[1] = slog.refreshed[2]
        /\ slog.refreshed[1].kind = "refresh"
        /\ resp[p].req.op = "refresh_token"
        /\ resp[p].req.jwt = slog.refreshed[2]
        /\ IsTokenPair(resp[p])

\* C20: when several concurrent callers of get_apple_public_keys find the
\* cache empty or expired, at most one fetch of the keys is in flight at any
\* time.
C20_NoCacheStampede == Cardinality(InFlight) <= 1

\* C21: an Apple login for an apple subject id that a row already holds,
\* carrying no name data, succeeds with a token pair for that row's user and
\* leaves the stored full_name as it was.
C21_AppleNameNotRequired ==
    [][\A p \in Procs, u \in Ids :
          (/\ Responded(p)
           /\ resp'[p].req.op = "apple_auth"
           /\ cfg.apple
           /\ resp'[p].req.cause = "ok"
           /\ resp'[p].req.full_name = "NULL"
           /\ users[u].apple_id = resp'[p].req.sub)
          => /\ IsTokenPair(resp'[p])
             /\ resp'[p].access.sub = u
             /\ users'[u].full_name = users[u].full_name]_vars

\* C22: with the Apple provider enabled, an apple_auth request whose
\* id_token the verifier accepts, for a subject and an email that no row
\* holds, returns a token pair and adds exactly one row whose apple_id,
\* email and full_name are the values the verifier returned.
C22_AppleNewUser ==
    [][\A p \in Procs :
          (/\ Responded(p)
           /\ resp'[p].req.op = "apple_auth"
           /\ cfg.apple
           /\ resp'[p].req.cause = "ok"
           /\ SelectBy("apple_id", resp'[p].req.sub) = {}
           /\ SelectBy("email", resp'[p].req.email) = {})
          => /\ IsTokenPair(resp'[p])
             /\ Len(users') = Len(users) + 1
             /\ resp'[p].access.sub = Len(users')
             /\ users'[Len(users')].apple_id = resp'[p].req.sub
             /\ users'[Len(users')].email = resp'[p].req.email
             /\ users'[Len(users')].full_name = resp'[p].req.full_name]_vars

\* C23: a successful Google login whose subject id and email match no row
\* adds exactly one row with that email, display name and google_id, with
\* is_verified and is_active true, and returns tokens whose subject is the
\* new row's id.
C23_GoogleCreate ==
    [][\A p \in Procs :
          (/\ Responded(p)
           /\ resp'[p].req.op = "google_auth"
           /\ IsTokenPair(resp'[p])
           /\ SelectBy("google_id", resp'[p].req.sub) = {}
           /\ SelectBy("email", resp'[p].req.email) = {})
          => LET new == Len(users') IN
             /\ new = Len(users) + 1
             /\ \A u \in Ids : users'[u] = users[u]
             /\ users'[new].email = resp'[p].req.email
             /\ users'[new].full_name = resp'[p].req.full_name
             /\ users'[new].google_id = resp'[p].req.sub
             /\ users'[new].is_verified
             /\ users'[new].is_active
             /\ resp'[p].access.sub = new
             /\ resp'[p].refresh.sub = new]_vars

\* a Google login created the second row of the table, for another email
\* than the first row's, and got tokens for it
C23_Witness ==
    \E p \in Procs :
        /\ Len(users) = 2
        /\ resp[p].req.op = "google_auth"
        /\ IsTokenPair(resp[p])
        /\ resp[p].access.sub = 2
        /\ users[2].email = resp[p].req.email
        /\ users[2].google_id = resp[p].req.sub
        /\ users[2].full_name = "Ann"
        /\ users[2].is_verified
        /\ users[2].is_active
        /\ users[1].google_id # resp[p].req.sub

\* C24: with magic-link enabled, request_magic_link for an email that no
\* row holds, when new users are not allowed, is answered 404, adds no row
\* and stores no token; every other request is answered 200.
C24_MagicLinkNotFound ==
    [][\A p \in Procs :
          (/\ Responded(p)
           /\ resp'[p].req.op = "request_magic_link"
           /\ cfg.magic_link)
          => IF /\ SelectBy("email", resp'[p].req.email) = {}
                /\ ~cfg.allow_new_users
             THEN /\ resp'[p].status = HTTP_404_NOT_FOUND
                  /\ users' = users
             ELSE resp'[p].status = HTTP_200_OK]_vars

\* new users are not allowed, and a request for an email that no row holds
\* was answered 404
C24_Witness ==
    \E p \in Procs :
        /\ cfg.magic_link
        /\ ~cfg.allow_new_users
        /\ resp[p].req.op = "request_magic_link"
        /\ SelectBy("email", resp[p].req.email) = {}
        /\ resp[p].status = HTTP_404_NOT_FOUND
        /\ Len(users) > 0

\* C25: for every subject s, verify_token of the token that
\* create_access_token({sub: s}) returned, called within the token's
\* lifetime, returns claims with sub = s; verify_token of a string that is
\* malformed, signed with another secret or expired fails with 401.
C25_TokenRoundTrip ==
    verdict.status # 0 =>
        /\ (verdict.jwt = minted.jwt /\ ~(verdict.jwt.exp < verdict.at))
              => /\ verdict.status = HTTP_200_OK
                 /\ verdict.sub = minted.sub
        /\ (verdict.jwt.sig # "ok" \/ verdict.jwt.exp < verdict.at)
              => /\ verdict.status = HTTP_401_UNAUTHORIZED
                 /\ verdict.sub = NoUser

\* a token minted with the default lifetime was verified one tick later and
\* gave back its subject; the clock has since passed its expiry
C25_Witness ==
    /\ minted.delta = None
    /\ minted.sub = MaxUsers
    /\ verdict.jwt = minted.jwt
    /\ verdict.at = minted.at + access_token_expire_minutes
    /\ verdict.status = HTTP_200_OK
    /\ verdict.sub = minted.sub
    /\ now > verdict.jwt.exp

\* C26: after every successful federated login, whether it reused a row by
\* subject id, linked onto a row by email or created a row, the row the
\* tokens are for has is_verified = true.
C26_FederatedVerified ==
    [][\A p \in Procs :
          (/\ Responded(p)
           /\ resp'[p].req.op \in Federated
           /\ IsTokenPair(resp'[p]))
          => users'[resp'[p].access.sub].is_verified]_vars

\* C27: a request_magic_link answered 200 for the email of a row that holds
\* a pending token T1 leaves the row holding only the new token T2, with
\* T2's expiry, and no row holding T1; verify_magic_link of an issued token
\* that no row holds fails with 400 and issues no tokens; verify_magic_link
\* of the token a row holds, not after its expiry, returns tokens for that
\* row.
C27_OneLiveMagicLink ==
    [][\A p \in Procs, u \in Ids :
          /\ (/\ Responded(p)
               /\ resp'[p].req.op = "request_magic_link"
               /\ resp'[p].status = HTTP_200_OK
               /\ users[u].email = resp'[p].req.email
               /\ users[u].email_verification_token # NoToken)
              => LET T1 == users[u].email_verification_token
                     T2 == users'[u].email_verification_token IN
                 /\ T2 = nextToken - 1
                 /\ T2 # T1
                 /\ users'[u].email_verification_expires
                       = now + token_expire_minutes
                 /\ SelectIn(users', "email_verification_token", T1) = {}
                 /\ SelectIn(users', "email_verification_token", T2) = {u}
          /\ (/\ VerifyResponded(p)
               /\ cfg.magic_link
               /\ SelectBy("email_verification_token",
                           resp'[p].req.token) = {})
              => /\ resp'[p].status = HTTP_400_BAD_REQUEST
                 /\ NoTokens(resp'[p])
                 /\ users' = users
          /\ (/\ VerifyResponded(p)
               /\ cfg.magic_link
               /\ users[u].email_verification_token = resp'[p].req.token
               /\ ~(now > users[u].email_verification_expires))
              => /\ IsTokenPair(resp'[p])
                 /\ resp'[p].access.sub = u
                 /\ resp'[p].refresh.sub = u]_vars

\* token 1 was issued and never accepted; it was presented before its
\* expiry and refused, while the row it was issued to holds token 2
C27_Witness ==
    \E p \in Procs, u \in Ids :
        /\ resp[p].req.op = "verify_magic_link"
        /\ resp[p].req.token = 1
        /\ resp[p].status = HTTP_400_BAD_REQUEST
        /\ mlog[1].oks = 0
        /\ ~(now > mlog[1].exp)
        /\ users[u].email_verification_token = 2
        /\ Len(users) = 1

\* C28: a successful federated login whose subject id a row already holds
\* for the provider returns tokens for that row and leaves that row and
\* every other row as they were, whatever email, name and picture the
\* assertion carries.
C28_RepeatLoginWritesNothing ==
    [][\A p \in Procs, u \in Ids :
          (/\ Responded(p)
           /\ resp'[p].req.op \in Federated
           /\ IsTokenPair(resp'[p])
           /\ users[u][ProviderColumn(resp'[p].req.op)] = resp'[p].req.sub)
          => /\ users' = users
             /\ resp'[p].access.sub = u
             /\ resp'[p].refresh.sub = u]_vars

\* a Google login found the only row by its subject id; the assertion named
\* another email and a name, and the row kept its own
C28_Witness ==
    \E p \in Procs, u \in Ids :
        /\ resp[p].seq = 1
        /\ resp[p].req.op = "google_auth"
        /\ IsTokenPair(resp[p])
        /\ resp[p].access.sub = u
        /\ users[u].google_id = resp[p].req.sub
        /\ resp[p].req.email # users[u].email
        /\ resp[p].req.full_name = "Ann"
        /\ users[u].full_name = "NULL"
        /\ users[u].hashed_password # NoPassword
        /\ ~users[u].is_verified
        /\ Len(users) = 1

\* the endpoints of the router that authenticate a client
AuthRequests ==
    {"login_email", "register_email", "request_magic_link",
     "verify_magic_link", "google_auth", "apple_auth", "refresh_token"}

\* C29: every authentication request answered with an error leaves the
\* users table as it was; login_email and refresh_token leave it as it was
\* whatever they answer; so the table changes only in the step in which a
\* register, magic-link or federated request is answered 200.
C29_ErrorsWriteNothing ==
    [][/\ \A p \in Procs :
            (/\ Responded(p)
             /\ resp'[p].req.op \in AuthRequests
             /\ \/ resp'[p].status # HTTP_200_OK
                \/ resp'[p].req.op \in {"login_email", "refresh_token"})
            => users' = users
       /\ users' # users
            => \E p \in Procs :
                  /\ Responded(p)
                  /\ resp'[p].status = HTTP_200_OK
                  /\ resp'[p].req.op \in
                        AuthRequests \ {"login_email", "refresh_token"}]_vars

\* the stored token was presented after its expiry and refused, and the
\* row still holds the token and its expiry
C29_Witness ==
    \E p \in Procs, u \in Ids :
        /\ resp[p].req.op = "verify_magic_link"
        /\ resp[p].status = HTTP_400_BAD_REQUEST
        /\ resp[p].detail = "Token has expired"
        /\ users[u].email_verification_token = resp[p].req.token
        /\ users[u].email_verification_expires # NoExpiry
        /\ now > users[u].email_verification_expires
        /\ users[u].is_active
        /\ Len(users) = 1

\* the requests of client c that the rate limiter passed on with a
\* timestamp in the window (t - period, t], among the first n arrivals
AdmittedIn(c, t, n) ==
    {i \in 1..n :
        /\ limiter.arrivals[i].client = c
        /\ limiter.arrivals[i].limited
        /\ limiter.arrivals[i].admitted
        /\ t - period < limiter.arrivals[i].at
        /\ limiter.arrivals[i].at <= t}

\* C30: outside development, for every client and every time t the rate
\* limiter has passed on at most `calls` requests of the client with
\* timestamps in (t - period, t]; a request that arrives when the window
\* ending at its arrival already holds `calls` such requests is rejected
\* with 429 and its timestamp is not recorded; a request that arrives when
\* the window holds fewer, the older ones being at least period old, is
\* passed on and recorded.
C30_RateLimiterBound ==
    settings.environment # "development" =>
        LET log == limiter.arrivals IN
        /\ \A c \in Clients, t \in 0..MaxTime :
              Cardinality(AdmittedIn(c, t, Len(log))) <= calls
        /\ \A i \in 1..Len(log) :
              log[i].limited =>
                 IF Cardinality(AdmittedIn(log[i].client, log[i].at, i - 1))
                       >= calls
                 THEN /\ ~log[i].admitted
                      /\ log[i].status = HTTP_429_TOO_MANY_REQUESTS
                 ELSE /\ log[i].admitted
                      /\ log[i].status = 0
        /\ \A c \in DOMAIN limiter.clients, t \in 0..MaxTime :
              Cardinality({j \in 1..Len(limiter.clients[c]) :
                              limiter.clients[c][j] = t})
                 <= Cardinality({i \in AdmittedIn(c, t, Len(log)) :
                                    log[i].at = t})

\* in production a client was passed on `calls` times at time 0, rejected
\* with 429 before the period was over, and passed on again at time
\* `period`; only that last timestamp is still recorded for it
C30_Witness ==
    /\ settings.environment = "production"
    /\ Len(limiter.arrivals) = 4
    /\ \A i \in 1..4 : limiter.arrivals[i].client = "10.0.0.1"
    /\ limiter.arrivals[1].admitted /\ limiter.arrivals[1].at = 0
    /\ limiter.arrivals[2].admitted /\ limiter.arrivals[2].at = 0
    /\ limiter.arrivals[3].status = HTTP_429_TOO_MANY_REQUESTS
    /\ limiter.arrivals[3].at < period
    /\ limiter.arrivals[4].admitted /\ limiter.arrivals[4].at = period
    /\ limiter.clients["10.0.0.1"] = <<period>>

====
